---- MODULE Spec2Model ----
(***************************************************************************)
(* Model of the profile-creation endpoint                                  *)
(*   POST /users/{user_id}/profile/                                        *)
(* of src/src/routes/profiles.py with its request schema                   *)
(* src/src/schemas/profiles.py.                                            *)
(*                                                                         *)
(* A request is served in the steps the framework and the handler take,    *)
(* each one an action:                                                     *)
(*   Receive                    the request arrives                        *)
(*   as_form                    dependency 1: the schema and its validators*)
(*   get_current_user           dependency 2: bearer-token authentication  *)
(*   create_profile_authorize   lines 83-105: target lookup and the checks *)
(*   create_profile_upload      lines 107-116: avatar upload               *)
(*   create_profile_commit      lines 118-125: db.add + db.commit          *)
(*   create_profile_respond     lines 126-137: URL resolution, response    *)
(*   Abort                      the transport drops the request            *)
(* The dependencies are solved in the order of create_profile's            *)
(* parameters: profile_data (as_form) before current_user.                 *)
(*                                                                         *)
(* A request is taken up where the framework has decoded the multipart     *)
(* form: every field is present and date_of_birth is a date.               *)
(*                                                                         *)
(* Two specifications: SpecSeq serves one request at a time, with the full *)
(* set of inputs; Spec serves NumReq requests concurrently, interleaved at *)
(* the awaits of the handler, with a smaller set of inputs.                *)
(***************************************************************************)
EXTENDS Integers, Sequences, FiniteSets, TLC

VARIABLES req, profiles, s3

vars == <<req, profiles, s3>>

(***************************************************************************)
(* Bounds                                                                  *)
(***************************************************************************)
\* number of requests in flight at once under Spec
NumReq == 2

(***************************************************************************)
(* The accounts (database.UserModel rows).  The endpoint never writes them.*)
(***************************************************************************)
ADMIN == "admin"
USER == "user"

\* id 1: active admin, 2: active user, 3: deactivated user; 4 names no row
Users == (1 :> [is_active |-> TRUE, group |-> ADMIN])
      @@ (2 :> [is_active |-> TRUE, group |-> USER])
      @@ (3 :> [is_active |-> FALSE, group |-> USER])

UserIds == {1, 2, 3, 4}

\* db.scalar(select(UserModel).where(UserModel.id == id)): the row, or none
UserExists(id) == id \in DOMAIN Users

\* "not user or not user.is_active"
NotFoundOrInactive(id) == ~UserExists(id) \/ ~Users[id].is_active

has_group(id, g) == Users[id].group = g

(***************************************************************************)
(* Text.  A string the code transforms is a sequence of characters.        *)
(***************************************************************************)
UpperToLower == ("A" :> "a") @@ ("L" :> "l")

Letters == {"A", "L", "a", "d", "l", "o"}

Whitespace == {" "}

LowerChar(c) == IF c \in DOMAIN UpperToLower THEN UpperToLower[c] ELSE c

\* str.lower()
Lower(s) == [i \in 1..Len(s) |-> LowerChar(s[i])]

RECURSIVE LStrip(_)
LStrip(s) == IF s # <<>> /\ Head(s) \in Whitespace THEN LStrip(Tail(s)) ELSE s

RECURSIVE RStrip(_)
RStrip(s) ==
    IF s # <<>> /\ s[Len(s)] \in Whitespace
    THEN RStrip(SubSeq(s, 1, Len(s) - 1))
    ELSE s

\* str.strip()
Strip(s) == RStrip(LStrip(s))

(***************************************************************************)
(* The validation package (validate_name, validate_gender,                 *)
(* validate_birth_date, validate_image): TRUE where the function returns,  *)
(* FALSE where it raises ValueError.                                       *)
(***************************************************************************)
\* a date of birth is the number of whole years it lies before today
MaxAge == 120

GenderEnum == {"man", "woman"}

ImageData == {"img1", "img2"}

validate_name(value) ==
    /\ Strip(value) # <<>>
    /\ \A i \in 1..Len(Strip(value)) : Strip(value)[i] \in Letters

validate_gender(value) == value \in GenderEnum

validate_birth_date(value) == value >= 0 /\ value <= MaxAge

validate_image(value) == value.data \in ImageData

\* str(e) of the ValueError each of them raises
ValueErrorMsg == [first_name |-> "invalid name", last_name |-> "invalid name",
                  gender |-> "invalid gender",
                  date_of_birth |-> "invalid birth date",
                  info |-> "Info field cannot be empty or contain only spaces.",
                  avatar |-> "invalid image"]

(***************************************************************************)
(* Requests: what a client can send.                                       *)
(***************************************************************************)
FieldNames == {"first_name", "last_name", "gender", "date_of_birth", "info", "avatar"}

Ada == <<"A", "d", "a">>
Lo == <<"L", "o">>
Bio == <<"d", "o">>

FirstNames == {Ada, <<" ", "A", "d", "a", " ">>, <<"a", "1">>}
LastNames == {Lo, <<"L", "0">>, <<" ">>}
Genders == {"man", "woman", "unknown"}
\* 30 years ago, one year ahead, 150 years ago
BirthDates == {30, -1, 150}
Infos == {Bio, <<" ", "d", "o", " ">>, <<" ", " ">>}
\* either image and a file that is no image as "a.jpg", an image as "b.png"
Avatars == {[filename |-> "a.jpg", data |-> d] : d \in ImageData \cup {"text"}}
           \cup {[filename |-> "b.png", data |-> "img1"]}

BaseForm == [first_name |-> Ada, last_name |-> Lo, gender |-> "man",
             date_of_birth |-> 30, info |-> Bio,
             avatar |-> [filename |-> "a.jpg", data |-> "img1"]]

AllForms == [first_name : FirstNames, last_name : LastNames, gender : Genders,
             date_of_birth : BirthDates, info : Infos, avatar : Avatars]

Differences(f, g) == {k \in FieldNames : f[k] # g[k]}

\* the forms that differ from BaseForm in at most one field, and two that
\* break the rules of two fields at once
Forms ==
    {f \in AllForms : Cardinality(Differences(f, BaseForm)) <= 1}
    \cup {[BaseForm EXCEPT !.gender = "unknown", !.info = <<" ", " ">>],
          [BaseForm EXCEPT !.first_name = <<"a", "1">>,
                           !.avatar = [filename |-> "a.jpg", data |-> "text"]]}

\* the Authorization header: absent, present without the "Bearer " prefix,
\* or "Bearer <token>"; a token is what decode_access_token makes of it
NoToken == [state |-> "invalid", user_id |-> 0]

Tokens == {[state |-> "expired", user_id |-> 1], NoToken}
          \cup {[state |-> "valid", user_id |-> u] : u \in {0} \cup UserIds}

Headers == {[present |-> FALSE, bearer |-> FALSE, token |-> NoToken],
            [present |-> TRUE, bearer |-> FALSE, token |-> NoToken]}
           \cup {[present |-> TRUE, bearer |-> TRUE, token |-> t] : t \in Tokens}

BearerFor(u) == [present |-> TRUE, bearer |-> TRUE,
                 token |-> [state |-> "valid", user_id |-> u]]

\* inputs of SpecSeq
SeqInputs == [auth : Headers, user_id : UserIds, form : Forms]

\* inputs of Spec: callers 1 (admin) and 2, target 2, the base form with
\* either image under the same file name
ConcForms == {[BaseForm EXCEPT !.avatar = [filename |-> "a.jpg", data |-> d]] :
                 d \in ImageData}

ConcInputs == [auth : {BearerFor(1), BearerFor(2)}, user_id : {2}, form : ConcForms]

(***************************************************************************)
(* Responses.  An HTTPException(status_code, detail) becomes the response  *)
(* the framework sends for it; detail is a message, or for 422 one entry   *)
(* {type, loc, msg, input}.                                                *)
(***************************************************************************)
NoResponse == [status |-> 0, type |-> "", msg |-> "", loc |-> <<>>,
               input |-> <<>>, body |-> <<>>]

HTTPException(status_code, detail) ==
    [NoResponse EXCEPT !.status = status_code, !.msg = detail]

FieldError(field, message, value) ==
    [NoResponse EXCEPT !.status = 422, !.type = "value_error", !.loc = <<field>>,
                       !.msg = message, !.input = value]

\* an exception no handler catches: the framework answers 500
UnhandledException == [NoResponse EXCEPT !.status = 500, !.msg = "Internal Server Error"]

(***************************************************************************)
(* ProfileCreateRequestSchema: one validator per field.  Each yields the   *)
(* value it returns, or the HTTPException it raises.                       *)
(***************************************************************************)
Returns(value) == [raised |-> FALSE, value |-> value, error |-> NoResponse]

Raises(response) == [raised |-> TRUE, value |-> <<>>, error |-> response]

validate_first_name(value) ==
    IF ~validate_name(value)
    THEN Raises(FieldError("first_name", ValueErrorMsg.first_name, value))
    ELSE Returns(Strip(Lower(value)))

\* validate_last_name with the loc of the validator it was copied from
validate_last_name_loc_first_name(value) ==
    IF ~validate_name(value)
    THEN Raises(FieldError("first_name", ValueErrorMsg.last_name, value))
    ELSE Returns(Strip(Lower(value)))

validate_last_name(value) ==
    IF ~validate_name(value)
    THEN Raises(FieldError("last_name", ValueErrorMsg.last_name, value))
    ELSE Returns(Strip(Lower(value)))

validate_gender_field(value) ==
    IF ~validate_gender(value)
    THEN Raises(FieldError("gender", ValueErrorMsg.gender, value))
    ELSE Returns(value)

\* str(value) of a date
DateStr(value) == <<"date", value>>

validate_age(value) ==
    IF ~validate_birth_date(value)
    THEN Raises(FieldError("date_of_birth", ValueErrorMsg.date_of_birth, DateStr(value)))
    ELSE Returns(value)

validate_info_field(value) ==
    IF Strip(value) = <<>>
    THEN Raises(FieldError("info", ValueErrorMsg.info, value))
    ELSE Returns(Strip(value))

validate_avatar(value) ==
    IF ~validate_image(value)
    THEN Raises(FieldError("avatar", ValueErrorMsg.avatar, value.filename))
    ELSE Returns(value)

\* the fields in the order the class declares them, which is the order their
\* validators run in
FieldOrder == <<"first_name", "last_name", "gender", "date_of_birth", "info", "avatar">>

Validated(form) ==
    [first_name |-> validate_first_name(form.first_name),
     last_name |-> validate_last_name(form.last_name),
     gender |-> validate_gender_field(form.gender),
     date_of_birth |-> validate_age(form.date_of_birth),
     info |-> validate_info_field(form.info),
     avatar |-> validate_avatar(form.avatar)]

\* ProfileCreateRequestSchema.as_form: cls(...) runs the validators in order;
\* the first HTTPException raised leaves the constructor (it is no ValueError,
\* so it is not collected), else the instance holds the returned values
as_form(form) ==
    LET v == Validated(form)
        bad == {i \in 1..Len(FieldOrder) : v[FieldOrder[i]].raised}
    IN  IF bad # {}
        THEN Raises(v[FieldOrder[CHOOSE i \in bad : \A j \in bad : i <= j]].error)
        ELSE Returns([k \in FieldNames |-> v[k].value])

(***************************************************************************)
(* get_current_user                                                        *)
(***************************************************************************)
\* jwt_manager.decode_access_token: the payload, or the error it raises
decode_access_token(token) ==
    CASE token.state = "expired" -> [raises |-> "TokenExpiredError", payload_user_id |-> 0]
      [] token.state = "invalid" -> [raises |-> "InvalidTokenError", payload_user_id |-> 0]
      [] OTHER -> [raises |-> "", payload_user_id |-> token.user_id]

\* payload.get("user_id") is 0 here where the claim is absent (or is 0):
\* "not user_id" holds of both
get_current_user(auth_header) ==
    IF ~auth_header.present
    THEN Raises(HTTPException(401, "Authorization header is missing"))
    ELSE IF ~auth_header.bearer
    THEN Raises(HTTPException(401,
             "Invalid Authorization header format. Expected 'Bearer <token>'"))
    ELSE LET decoded == decode_access_token(auth_header.token)
             user_id == decoded.payload_user_id
         IN  IF decoded.raises = "TokenExpiredError"
             THEN Raises(HTTPException(401, "Token has expired."))
             ELSE IF decoded.raises = "InvalidTokenError"
             THEN Raises(HTTPException(401, "Invalid token."))
             ELSE IF user_id = 0
             THEN Raises(HTTPException(401, "Invalid token."))
             ELSE IF NotFoundOrInactive(user_id)
             THEN Raises(HTTPException(401, "User not found or not active."))
             ELSE Returns(user_id)

(***************************************************************************)
(* The stores.  profiles is the table of UserProfileModel rows, s3 the     *)
(* blob store: a function from the keys that name an object to its bytes.  *)
(***************************************************************************)
EmptyStore == [k \in {} |-> ""]

\* s3_client.upload_file(file_name, file_data): a put; it replaces what the
\* key named before
upload_file(store, file_name, file_data) ==
    [k \in DOMAIN store \cup {file_name} |->
        IF k = file_name THEN file_data ELSE store[k]]

\* s3_client.get_file_url(file_name)
get_file_url(file_name) == <<"http://storage/">> \o file_name

\* joinedload(UserModel.profile): the rows of the account
ProfilesOf(rows, user_id) == {p \in rows : p.user_id = user_id}

\* a table without the constraint
IntegrityError_never(rows, row) == FALSE

\* the UNIQUE constraint on user_profiles.user_id: a commit that would give
\* an account a second row raises IntegrityError
IntegrityError(rows, row) == ProfilesOf(rows, row.user_id) # {}

\* the id the table assigns to a new row
NextId(rows) == Cardinality(rows) + 1

(***************************************************************************)
(* create_profile, lines 83-137                                            *)
(***************************************************************************)
\* authorize without its check of user.profile
authorize_without_profile_check(user_id, current_user, rows) ==
    IF NotFoundOrInactive(user_id)
    THEN Raises(HTTPException(401, "User not found or not active."))
    ELSE IF user_id # current_user /\ ~has_group(current_user, ADMIN)
    THEN Raises(HTTPException(403, "You don't have permission to edit this profile."))
    ELSE Returns(user_id)

\* authorize with the check of user.profile ahead of the permission check
authorize_profile_check_first(user_id, current_user, rows) ==
    IF NotFoundOrInactive(user_id)
    THEN Raises(HTTPException(401, "User not found or not active."))
    ELSE IF ProfilesOf(rows, user_id) # {}
    THEN Raises(HTTPException(400, "User already has a profile."))
    ELSE IF user_id # current_user /\ ~has_group(current_user, ADMIN)
    THEN Raises(HTTPException(403, "You don't have permission to edit this profile."))
    ELSE Returns(user_id)

\* lines 83-105: nothing raised, or the HTTPException
authorize(user_id, current_user, rows) ==
    IF NotFoundOrInactive(user_id)
    THEN Raises(HTTPException(401, "User not found or not active."))
    ELSE IF user_id # current_user /\ ~has_group(current_user, ADMIN)
    THEN Raises(HTTPException(403, "You don't have permission to edit this profile."))
    ELSE IF ProfilesOf(rows, user_id) # {}
    THEN Raises(HTTPException(400, "User already has a profile."))
    ELSE Returns(user_id)

\* the read of a stream that is already at its end
avatar_byte_data_at_end(avatar) == ""

\* line 107: await profile_data.avatar.read()
avatar_byte_data(avatar) == avatar.data

\* line 108: f"avatars/{user.id}_{profile_data.avatar.filename}"
avatar_path(user_id, filename) == <<"avatars/", user_id, "_", filename>>

\* lines 118-122: UserProfileModel(**model_dump(exclude=["avatar"]), avatar=, user_id=)
UserProfileModel(profile_data, path, user_id, id) ==
    [id |-> id, user_id |-> user_id,
     first_name |-> profile_data.first_name, last_name |-> profile_data.last_name,
     gender |-> profile_data.gender, date_of_birth |-> profile_data.date_of_birth,
     info |-> profile_data.info, avatar |-> path]

\* lines 128-137
ProfileCreateResponseSchema(profile, avatar_url) ==
    [id |-> profile.id, user_id |-> profile.user_id,
     first_name |-> profile.first_name, last_name |-> profile.last_name,
     gender |-> profile.gender, date_of_birth |-> profile.date_of_birth,
     info |-> profile.info, avatar |-> avatar_url]

Created(profile, avatar_url) ==
    [NoResponse EXCEPT !.status = 201,
                       !.body = ProfileCreateResponseSchema(profile, avatar_url)]

(***************************************************************************)
(* A request in flight.  uploads and inserts count the writes the request  *)
(* has made to the blob store and to the table.                            *)
(***************************************************************************)
IdleRequest ==
    [pc |-> "idle", auth |-> BearerFor(1), user_id |-> 1, form |-> BaseForm,
     profile_data |-> <<>>, current_user |-> 0, avatar_path |-> <<>>,
     profile |-> <<>>, response |-> NoResponse, uploads |-> 0, inserts |-> 0]

NewRequest(in) ==
    [IdleRequest EXCEPT !.pc = "as_form", !.auth = in.auth, !.user_id = in.user_id,
                        !.form = in.form]

Finish(r, response) ==
    req' = [req EXCEPT ![r].pc = "done", ![r].response = response]

InFlight == {"as_form", "get_current_user", "create_profile", "upload", "commit", "respond"}

\* a request arrives on a free connection
Receive(r, inputs) ==
    /\ req[r].pc = "idle"
    /\ \E in \in inputs : req' = [req EXCEPT ![r] = NewRequest(in)]
    /\ UNCHANGED <<profiles, s3>>

\* Depends(ProfileCreateRequestSchema.as_form), the first dependency
Depends_as_form(r) ==
    /\ req[r].pc = "as_form"
    /\ LET res == as_form(req[r].form)
       IN  IF res.raised
           THEN Finish(r, res.error)
           ELSE req' = [req EXCEPT ![r].pc = "get_current_user",
                                   ![r].profile_data = res.value]
    /\ UNCHANGED <<profiles, s3>>

\* Depends(get_current_user), the second dependency
Depends_get_current_user(r) ==
    /\ req[r].pc = "get_current_user"
    /\ LET res == get_current_user(req[r].auth)
       IN  IF res.raised
           THEN Finish(r, res.error)
           ELSE req' = [req EXCEPT ![r].pc = "create_profile",
                                   ![r].current_user = res.value]
    /\ UNCHANGED <<profiles, s3>>

\* lines 83-105: the target is read with its profile, then checked
create_profile_authorize(r) ==
    /\ req[r].pc = "create_profile"
    /\ LET res == authorize(req[r].user_id, req[r].current_user, profiles)
       IN  IF res.raised
           THEN Finish(r, res.error)
           ELSE req' = [req EXCEPT ![r].pc = "upload"]
    /\ UNCHANGED <<profiles, s3>>

\* create_profile_upload with the S3FileUploadError swallowed: the handler
\* goes on to the insert
create_profile_upload_swallowed(r) ==
    /\ req[r].pc = "upload"
    /\ LET path == avatar_path(req[r].user_id, req[r].profile_data.avatar.filename)
           data == avatar_byte_data(req[r].profile_data.avatar)
       IN  \/ /\ s3' = upload_file(s3, path, data)
              /\ req' = [req EXCEPT ![r].pc = "commit", ![r].avatar_path = path,
                                    ![r].uploads = @ + 1]
           \/ /\ req' = [req EXCEPT ![r].pc = "commit", ![r].avatar_path = path]
              /\ UNCHANGED s3
    /\ UNCHANGED profiles

\* lines 107-116: the upload succeeds, or raises S3FileUploadError
create_profile_upload(r) ==
    /\ req[r].pc = "upload"
    /\ LET path == avatar_path(req[r].user_id, req[r].profile_data.avatar.filename)
           data == avatar_byte_data(req[r].profile_data.avatar)
       IN  \/ /\ s3' = upload_file(s3, path, data)
              /\ req' = [req EXCEPT ![r].pc = "commit", ![r].avatar_path = path,
                                    ![r].uploads = @ + 1]
           \/ /\ Finish(r, HTTPException(500,
                      "Failed to upload avatar. Please try again later."))
              /\ UNCHANGED s3
    /\ UNCHANGED profiles

\* create_profile_commit with user_id=current_user.id
create_profile_commit_for_caller(r) ==
    /\ req[r].pc = "commit"
    /\ LET profile == UserProfileModel(req[r].profile_data, req[r].avatar_path,
                                       req[r].current_user, NextId(profiles))
       IN  IF IntegrityError(profiles, profile)
           THEN /\ Finish(r, UnhandledException)
                /\ UNCHANGED profiles
           ELSE /\ profiles' = profiles \cup {profile}
                /\ req' = [req EXCEPT ![r].pc = "respond", ![r].profile = profile,
                                      ![r].inserts = @ + 1]
    /\ UNCHANGED s3

\* lines 118-125: db.add(profile); await db.commit().  Nothing catches the
\* IntegrityError of the constraint.
create_profile_commit(r) ==
    /\ req[r].pc = "commit"
    /\ LET profile == UserProfileModel(req[r].profile_data, req[r].avatar_path,
                                       req[r].user_id, NextId(profiles))
       IN  IF IntegrityError(profiles, profile)
           THEN /\ Finish(r, UnhandledException)
                /\ UNCHANGED profiles
           ELSE /\ profiles' = profiles \cup {profile}
                /\ req' = [req EXCEPT ![r].pc = "respond", ![r].profile = profile,
                                      ![r].inserts = @ + 1]
    /\ UNCHANGED s3

\* lines 126-137
create_profile_respond(r) ==
    /\ req[r].pc = "respond"
    /\ Finish(r, Created(req[r].profile, get_file_url(req[r].profile.avatar)))
    /\ UNCHANGED <<profiles, s3>>

\* the transport drops the request at one of its awaits: nothing more of it
\* runs and nothing is answered
Abort(r) ==
    /\ req[r].pc \in InFlight
    /\ req' = [req EXCEPT ![r] = IdleRequest]
    /\ UNCHANGED <<profiles, s3>>

\* the response has been sent: the connection is free again
Close(r) ==
    /\ req[r].pc = "done"
    /\ req' = [req EXCEPT ![r] = IdleRequest]
    /\ UNCHANGED <<profiles, s3>>

(***************************************************************************)
(* Spec: NumReq requests in flight, interleaved at their awaits.           *)
(***************************************************************************)
Init ==
    /\ req = [r \in 1..NumReq |-> IdleRequest]
    /\ profiles = {}
    /\ s3 = EmptyStore

Next ==
    \E r \in 1..NumReq :
        \/ Receive(r, ConcInputs)
        \/ Depends_as_form(r)
        \/ Depends_get_current_user(r)
        \/ create_profile_authorize(r)
        \/ create_profile_upload(r)
        \/ create_profile_commit(r)
        \/ create_profile_respond(r)
        \/ Abort(r)
        \/ Close(r)

Spec == Init /\ [][Next]_vars

(***************************************************************************)
(* SpecSeq: one request at a time, any input.                              *)
(***************************************************************************)
InitSeq ==
    /\ req = [r \in {1} |-> IdleRequest]
    /\ profiles = {}
    /\ s3 = EmptyStore

NextSeq ==
    \E r \in {1} :
        \/ Receive(r, SeqInputs)
        \/ Depends_as_form(r)
        \/ Depends_get_current_user(r)
        \/ create_profile_authorize(r)
        \/ create_profile_upload(r)
        \/ create_profile_commit(r)
        \/ create_profile_respond(r)
        \/ Abort(r)
        \/ Close(r)

SpecSeq == InitSeq /\ [][NextSeq]_vars

(***************************************************************************)
(* Vocabulary of the claims, stated from the inputs and the stores and not *)
(* through the operators of the handler.                                   *)
(***************************************************************************)
Done(r) == req[r].pc = "done"

\* the rule of section 4.2 for field k holds of the form
RuleHolds(k, form) ==
    CASE k = "first_name" -> validate_name(form.first_name)
      [] k = "last_name" -> validate_name(form.last_name)
      [] k = "gender" -> validate_gender(form.gender)
      [] k = "date_of_birth" -> validate_birth_date(form.date_of_birth)
      [] k = "info" -> Strip(form.info) # <<>>
      [] k = "avatar" -> validate_image(form.avatar)

BrokenRules(form) == {k \in FieldNames : ~RuleHolds(k, form)}

\* the header carries a valid token of an active account
ValidAuth(auth) ==
    /\ auth.present /\ auth.bearer /\ auth.token.state = "valid"
    /\ auth.token.user_id \in DOMAIN Users
    /\ Users[auth.token.user_id].is_active

Caller(auth) == auth.token.user_id

ActiveTarget(user_id) == user_id \in DOMAIN Users /\ Users[user_id].is_active

Permitted(auth, user_id) == Caller(auth) = user_id \/ Users[Caller(auth)].group = ADMIN

\* valid authentication, valid fields, an active target and a permitted caller
ValidPermitted(r) ==
    /\ ValidAuth(req[r].auth)
    /\ BrokenRules(req[r].form) = {}
    /\ ActiveTarget(req[r].user_id)
    /\ Permitted(req[r].auth, req[r].user_id)

NoWrites(r) == req[r].uploads = 0 /\ req[r].inserts = 0

AlreadyExists == HTTPException(400, "User already has a profile.")

UploadFailed == HTTPException(500, "Failed to upload avatar. Please try again later.")

Forbidden == HTTPException(403, "You don't have permission to edit this profile.")

\* C1 (SpecSeq): of the valid, permitted requests served one after another for
\* an account, at most one inserts a row, and that one is answered 201; every
\* request served once the account has its row is answered 400 "User already
\* has a profile." and writes nothing; a request that finds no row is answered
\* 201 unless its upload fails.
C1_CreatedExactlyOnce ==
    \A r \in DOMAIN req :
        Done(r) /\ ValidPermitted(r) =>
            LET rows == ProfilesOf(profiles, req[r].user_id)
                response == req[r].response
            IN  /\ Cardinality(rows) <= 1
                /\ response.status = 201 \/ response = AlreadyExists
                                         \/ response = UploadFailed
                /\ response.status = 201 <=> req[r].inserts = 1
                /\ response.status = 201 => rows = {req[r].profile}
                /\ response = AlreadyExists => NoWrites(r) /\ rows # {}
                /\ rows # {} /\ req[r].inserts = 0 => response = AlreadyExists
                /\ response = UploadFailed => rows = {}

\* a second request for the account, with other valid data, answered 400
C1_Witness ==
    \E r \in DOMAIN req :
        /\ Done(r) /\ ValidPermitted(r) /\ req[r].response = AlreadyExists
        /\ \E p \in ProfilesOf(profiles, req[r].user_id) :
               p.gender # req[r].form.gender

\* C2 as claimed (SpecSeq): an authenticated caller who is neither the target
\* nor an admin is answered 403 whatever the fields and the target's state.
C2_ForbiddenWhateverElse ==
    \A r \in DOMAIN req :
        Done(r) /\ ValidAuth(req[r].auth) /\ Caller(req[r].auth) # req[r].user_id
                /\ Users[Caller(req[r].auth)].group # ADMIN
            => req[r].response = Forbidden /\ NoWrites(r)

\* C2 amended (SpecSeq): such a caller is answered 403 when the fields are
\* valid and the target exists and is active, whether or not the target has a
\* profile; with a field that breaks its rule the answer is 422, and with
\* valid fields and a missing or inactive target it is 401.  No case writes.
C2_ForbiddenAfterValidation ==
    \A r \in DOMAIN req :
        Done(r) /\ ValidAuth(req[r].auth) /\ Caller(req[r].auth) # req[r].user_id
                /\ Users[Caller(req[r].auth)].group # ADMIN
            => /\ NoWrites(r)
               /\ IF BrokenRules(req[r].form) # {}
                  THEN req[r].response.status = 422
                  ELSE IF ~ActiveTarget(req[r].user_id)
                  THEN req[r].response = HTTPException(401, "User not found or not active.")
                  ELSE req[r].response = Forbidden

\* a non-admin answered 403 for a target that already has a profile
C2_Witness ==
    \E r \in DOMAIN req :
        /\ Done(r) /\ req[r].response = Forbidden
        /\ Caller(req[r].auth) = 2 /\ req[r].user_id = 1
        /\ ProfilesOf(profiles, 1) # {}

\* the authentication error of section 4.1 for a header, where there is one
AuthError(auth) ==
    IF ~auth.present THEN HTTPException(401, "Authorization header is missing")
    ELSE IF ~auth.bearer
    THEN HTTPException(401, "Invalid Authorization header format. Expected 'Bearer <token>'")
    ELSE IF auth.token.state = "expired" THEN HTTPException(401, "Token has expired.")
    ELSE IF auth.token.state = "invalid" \/ auth.token.user_id = 0
    THEN HTTPException(401, "Invalid token.")
    ELSE HTTPException(401, "User not found or not active.")

\* C3 (SpecSeq): a request whose Authorization header is missing, malformed,
\* expired, invalid, without subject or of a missing or inactive account is
\* answered with the authentication error (401), whatever its other inputs,
\* and writes nothing.
C3_AuthErrorWhateverElse ==
    \A r \in DOMAIN req :
        Done(r) /\ ~ValidAuth(req[r].auth)
            => req[r].response = AuthError(req[r].auth) /\ NoWrites(r)

\* the "input" entry of the 422 detail for field k
OffendingInput(k, form) ==
    CASE k = "date_of_birth" -> DateStr(form.date_of_birth)
      [] k = "avatar" -> form.avatar.filename
      [] OTHER -> form[k]

\* C4 (SpecSeq): a request in which exactly one field breaks its rule is
\* answered 422 with a detail entry whose loc names that field, with type,
\* msg and the offending input, and writes nothing.
C4_FieldNamed ==
    \A r \in DOMAIN req : \A k \in FieldNames :
        Done(r) /\ BrokenRules(req[r].form) = {k} =>
            /\ req[r].response.status = 422
            /\ req[r].response.loc = <<k>>
            /\ req[r].response.type = "value_error"
            /\ req[r].response.msg = ValueErrorMsg[k]
            /\ req[r].response.input = OffendingInput(k, req[r].form)
            /\ NoWrites(r)

\* a request whose last name alone breaks its rule, answered 422 on last_name
C4_Witness ==
    \E r \in DOMAIN req :
        /\ Done(r) /\ BrokenRules(req[r].form) = {"last_name"}
        /\ req[r].response.status = 422
        /\ req[r].response.loc = <<"last_name">>

\* request r leaves the upload step without having uploaded (and was not
\* dropped): s3_client.upload_file raised S3FileUploadError
UploadRaised(r) ==
    /\ req[r].pc = "upload"
    /\ req'[r].pc \notin {"upload", "idle"}
    /\ req'[r].uploads = req[r].uploads

C6_AtMostOneProfile ==
    \A u \in UserIds : Cardinality(ProfilesOf(profiles, u)) <= 1

\* two requests for one target past the existence check, one has committed
\* and the other is about to insert
C6_Witness ==
    \E r1, r2 \in DOMAIN req :
        /\ r1 # r2
        /\ req[r1].user_id = req[r2].user_id
        /\ req[r1].pc = "respond" /\ req[r1].inserts = 1
        /\ req[r2].pc = "commit"

\* C7 (Spec): the request whose insert hits the uniqueness constraint is
\* answered 400.
C7_ConflictAnswered400 ==
    [][\A r \in DOMAIN req :
          /\ req[r].pc = "commit"
          /\ ProfilesOf(profiles, req[r].user_id) # {}
          /\ req'[r].pc = "done"
          => req'[r].response.status = 400]_vars

\* C8 (SpecSeq): on 201 the inserted row belongs to the target of the path
\* and its avatar is the key avatars/{target id}_{file name}; the response
\* carries the row's id and target and the URL of that key, not the key.
C8_RowAndUrl ==
    \A r \in DOMAIN req :
        Done(r) /\ req[r].response.status = 201 =>
            LET key == <<"avatars/", req[r].user_id, "_", req[r].form.avatar.filename>>
                body == req[r].response.body
            IN  /\ \E p \in profiles : p.id = body.id
                /\ \A p \in profiles :
                       p.id = body.id => p.user_id = req[r].user_id /\ p.avatar = key
                /\ body.user_id = req[r].user_id
                /\ body.avatar = <<"http://storage/">> \o key
                /\ body.avatar # key

\* the admin has created the profile of account 2
C8_Witness ==
    \E r \in DOMAIN req :
        /\ Done(r) /\ req[r].response.status = 201
        /\ Caller(req[r].auth) = 1 /\ req[r].user_id = 2
        /\ req[r].form.avatar.filename = "b.png"

\* C9 (Spec): the avatar key of every row names an object of the blob store.
C9_RowHasBlob == \A p \in profiles : p.avatar \in DOMAIN s3

\* a row with its object, while another request has lost its insert
C9_Witness ==
    /\ \E p \in profiles : p.avatar \in DOMAIN s3
    /\ \E r \in DOMAIN req : Done(r) /\ req[r].response.status = 500

\* C10 as claimed (Spec): the object under the avatar key of a committed row
\* holds the bytes of the request whose insert committed.
C10_HoldsCommittersBytes ==
    \A r \in DOMAIN req :
        req[r].pc \in {"respond", "done"} /\ req[r].inserts = 1
            => s3[req[r].profile.avatar] = req[r].form.avatar.data

\* request r uploads its own bytes under key k in this step
UploadsOwnBytes(r, k) ==
    /\ req[r].pc = "upload"
    /\ req'[r].pc = "commit"
    /\ k = <<"avatars/", req[r].user_id, "_", req[r].form.avatar.filename>>
    /\ s3'[k] = req[r].form.avatar.data

\* C10 amended (Spec): an object of the blob store, the one under a committed
\* row's avatar key included, holds the bytes of the request that uploaded
\* under its key last: it changes only in the upload step of a request that
\* has passed the existence check, for this key, and then holds that
\* request's bytes, also if that request later fails at its insert.
C10_LastUploadWins ==
    [][\A k \in DOMAIN s3' :
          k \notin DOMAIN s3 \/ s3'[k] # s3[k]
              => \E r \in DOMAIN req : UploadsOwnBytes(r, k)]_vars

\* the request that lost the insert has replaced the committed row's avatar
C10_Witness ==
    \E r1, r2 \in DOMAIN req :
        /\ req[r1].pc \in {"respond", "done"} /\ req[r1].inserts = 1
        /\ Done(r2) /\ req[r2].response = UnhandledException
        /\ req[r2].avatar_path = req[r1].profile.avatar
        /\ s3[req[r1].profile.avatar] = req[r2].form.avatar.data
        /\ req[r2].form.avatar.data # req[r1].form.avatar.data

====
